---- MODULE Spec2Model ----
(***************************************************************************)
(* The risk estimation service of backend/app: the request schema          *)
(* (schemas/prediction.py) and the POST /demo-analyze handler              *)
(* (api/endpoints/prediction.py).                                          *)
(*                                                                         *)
(* Python floats are modelled as exact rationals in lowest terms           *)
(* ([num, den], den > 0); the non-finite floats are outside the model.     *)
(* A request is received, validated against the schema (422 on failure),   *)
(* and then handled by demo_analyze, whose body has no await and so runs   *)
(* as one step (200, or 500 when the body raises).                         *)
(***************************************************************************)
EXTENDS Integers, Sequences, FiniteSets

VARIABLES reqs, clock

vars == <<reqs, clock>>

(***************************************************************************)
(* Bounds of the model.                                                    *)
(***************************************************************************)
\* requests of one run of the concurrent specification
MaxRequests == 2
\* the wall clock stops advancing here (milliseconds)
MaxClock == 1
\* largest diabetes_duration of the single-request input grid
MaxDuration == 16
\* stands for the largest int that int / float converts (sys.float_info.max)
MaxFloatInt == 1000

(***************************************************************************)
(* Float arithmetic on exact rationals.                                    *)
(***************************************************************************)
Abs(n) == IF n < 0 THEN -n ELSE n

RECURSIVE GCD(_, _)
GCD(a, b) == IF b = 0 THEN a ELSE GCD(b, a % b)

\* the rational n/d in lowest terms with a positive denominator (d # 0)
Q(n, d) ==
    LET g == GCD(Abs(n), Abs(d))
        s == IF d < 0 THEN -1 ELSE 1
    IN  [num |-> (s * n) \div g, den |-> (s * d) \div g]

FAdd(a, b) == Q(a.num * b.den + b.num * a.den, a.den * b.den)
FSub(a, b) == Q(a.num * b.den - b.num * a.den, a.den * b.den)
FMul(a, b) == Q(a.num * b.num, a.den * b.den)
\* a / b, b # 0 (Python raises ZeroDivisionError otherwise, see Raised)
FDiv(a, b) == Q(a.num * b.den, a.den * b.num)
FLT(a, b) == a.num * b.den < b.num * a.den
FGT(a, b) == FLT(b, a)
FLE(a, b) == ~FLT(b, a)
\* Python's min(a, b) and max(a, b): the first argument unless the second beats it
FMin(a, b) == IF FLT(b, a) THEN b ELSE a
FMax(a, b) == IF FGT(b, a) THEN b ELSE a
\* int -> float
FromInt(n) == Q(n, 1)

RECURSIVE FSum(_)
FSum(s) == IF s = <<>> THEN Q(0, 1) ELSE FAdd(Head(s), FSum(Tail(s)))

(***************************************************************************)
(* schemas/prediction.py: ClinicalData.                                    *)
(***************************************************************************)
\* fields declared without a default
RequiredFields ==
    {"age", "gender", "bmi", "hba1c", "blood_glucose", "blood_pressure_systolic",
     "blood_pressure_diastolic", "diabetes_duration", "creatinine",
     "cholesterol_total", "cholesterol_ldl", "cholesterol_hdl", "triglycerides"}

\* the lower bound of age forgotten
AgeOK_no_ge(age) == age <= 120

\* age: int = Field(..., ge=0, le=120)
AgeOK(age) == age >= 0 /\ age <= 120

\* the schema accepts the payload: every required field present, age in range
Valid(p) == (p.absent \cap RequiredFields = {}) /\ AgeOK(p.age)

\* the validated ClinicalData object: absent optional fields take their defaults
ClinicalData(p) ==
    [age |-> p.age,
     bmi |-> p.bmi,
     hba1c |-> p.hba1c,
     blood_glucose |-> p.blood_glucose,
     blood_pressure_systolic |-> p.blood_pressure_systolic,
     diabetes_duration |-> p.diabetes_duration,
     smoking_status |->
         IF "smoking_status" \in p.absent THEN "never" ELSE p.smoking_status]

(***************************************************************************)
(* api/endpoints/prediction.py: demo_analyze.                              *)
(***************************************************************************)
\* int / float raises OverflowError when the int does not fit a float
IntTooLarge(n) == n > MaxFloatInt \/ n < -MaxFloatInt

risk_factor(cd) ==
    FMin(Q(1, 1),
         FDiv(FAdd(FDiv(cd.hba1c, Q(10, 1)),
                   FDiv(FromInt(cd.diabetes_duration), Q(20, 1))),
              Q(2, 1)))

dr_classes == <<"No DR", "Mild NPDR", "Moderate NPDR", "Severe NPDR", "PDR">>

\* the last weight scaled by 2.0 instead of 0.2
StageWeights_pdr(rf) ==
    << FMax(Q(0, 1), FSub(Q(8, 10), rf)),
       Q(1, 10),
       FAdd(Q(5, 100), FMul(rf, Q(2, 10))),
       FAdd(Q(5, 100), FMul(rf, Q(3, 10))),
       FMul(rf, Q(2, 1)) >>

\* the unnormalized stage weights
StageWeights(rf) ==
    << FMax(Q(0, 1), FSub(Q(8, 10), rf)),
       Q(1, 10),
       FAdd(Q(5, 100), FMul(rf, Q(2, 10))),
       FAdd(Q(5, 100), FMul(rf, Q(3, 10))),
       FMul(rf, Q(2, 10)) >>

total(rf) == FSum(StageWeights(rf))

\* [p / t for p in w]
RECURSIVE Normalize(_, _)
Normalize(w, t) ==
    IF w = <<>> THEN <<>> ELSE <<FDiv(Head(w), t)>> \o Normalize(Tail(w), t)

\* dr_probs = [p / total for p in dr_probs]
dr_probs(rf) == Normalize(StageWeights(rf), total(rf))

\* numpy.argmax: scan left to right, keep the first strictly greatest
RECURSIVE ArgMaxFrom(_, _, _)
ArgMaxFrom(s, i, best) ==
    IF i > Len(s) THEN best
    ELSE ArgMaxFrom(s, i + 1, IF FGT(s[i], s[best]) THEN i ELSE best)

\* the scan started one element late
argmax_skip_first(s) == ArgMaxFrom(s, 3, 2)

argmax(s) == ArgMaxFrom(s, 2, 1)

predicted_idx(rf) == argmax(dr_probs(rf))

\* the messages, without their leading emoji
MsgGlycemic == "Improve glycemic control - Target HbA1c < 7%"
MsgPressure == "Monitor and manage blood pressure"
MsgWeight == "Weight management recommended"
MsgSmoking == "Smoking cessation strongly recommended"
MsgUrgent == "Urgent ophthalmologist consultation required"
MsgFollowUp == "Schedule follow-up with eye specialist"
MsgContinue == "Continue current management plan"

TierMessages == {MsgUrgent, MsgFollowUp, MsgContinue}

\* the list kept at module level: a call goes on from the last list returned
NewList_shared(rs) ==
    LET ok == {i \in DOMAIN rs : rs[i].status = 200}
    IN  IF ok = {} THEN <<>>
        ELSE rs[CHOOSE i \in ok : \A j \in ok : j <= i].recommendations

\* recommendations = []: a list local to the call
NewList(rs) == <<>>

AppendIf(cond, s, m) == IF cond THEN Append(s, m) ELSE s

\* the urgent tier taken at the threshold itself
TierMessage_ge(rf) ==
    IF FLE(Q(7, 10), rf) THEN MsgUrgent
    ELSE IF FGT(rf, Q(4, 10)) THEN MsgFollowUp
    ELSE MsgContinue

TierMessage(rf) ==
    IF FGT(rf, Q(7, 10)) THEN MsgUrgent
    ELSE IF FGT(rf, Q(4, 10)) THEN MsgFollowUp
    ELSE MsgContinue

\* the weight rule taken at the threshold itself
recommendations_bmi_ge(cd, rf, rs) ==
    LET r0 == NewList(rs)
        r1 == AppendIf(FGT(cd.hba1c, Q(7, 1)), r0, MsgGlycemic)
        r2 == AppendIf(cd.blood_pressure_systolic > 130, r1, MsgPressure)
        r3 == AppendIf(FLE(Q(25, 1), cd.bmi), r2, MsgWeight)
        r4 == AppendIf(cd.smoking_status = "current", r3, MsgSmoking)
    IN  Append(r4, TierMessage(rf))

recommendations(cd, rf, rs) ==
    LET r0 == NewList(rs)
        r1 == AppendIf(FGT(cd.hba1c, Q(7, 1)), r0, MsgGlycemic)
        r2 == AppendIf(cd.blood_pressure_systolic > 130, r1, MsgPressure)
        r3 == AppendIf(FGT(cd.bmi, Q(25, 1)), r2, MsgWeight)
        r4 == AppendIf(cd.smoking_status = "current", r3, MsgSmoking)
    IN  Append(r4, TierMessage(rf))

\* the two lower intervals exchanged
follow_up_swapped(rf) ==
    IF FGT(rf, Q(7, 10)) THEN 1 ELSE IF FGT(rf, Q(4, 10)) THEN 6 ELSE 3

follow_up(rf) ==
    IF FGT(rf, Q(7, 10)) THEN 1 ELSE IF FGT(rf, Q(4, 10)) THEN 3 ELSE 6

\* "High" if risk_factor > hi else "Moderate" if risk_factor > mod else "Low"
Category(rf, hi, mod) ==
    IF FGT(rf, hi) THEN "High" ELSE IF FGT(rf, mod) THEN "Moderate" ELSE "Low"

RiskScore(value, category, confidence) ==
    [value |-> value, category |-> category, confidence |-> confidence]

overall_risk_score(rf) ==
    RiskScore(rf, Category(rf, Q(7, 10), Q(4, 10)), Q(88, 100))

nephropathy_risk(rf) ==
    RiskScore(FMin(Q(1, 1), FMul(rf, Q(11, 10))),
              Category(rf, Q(6, 10), Q(3, 10)), Q(82, 100))

neuropathy_risk(rf) ==
    RiskScore(FMin(Q(1, 1), FMul(rf, Q(9, 10))),
              Category(rf, Q(7, 10), Q(4, 10)), Q(79, 100))

cardiovascular_risk(rf) ==
    RiskScore(FMin(Q(1, 1), FMul(rf, Q(105, 100))),
              Category(rf, Q(65, 100), Q(35, 100)), Q(84, 100))

FeatureContribution(name, contribution, normalized) ==
    [feature_name |-> name, contribution |-> contribution,
     normalized_contribution |-> normalized]

\* the f-string, as the tuple of its interpolated parts
natural_language_explanation(cd, rf) ==
    << "Patient shows", dr_classes[predicted_idx(rf)],
       "with HbA1c of", cd.hba1c,
       IF FGT(cd.hba1c, Q(7, 1)) THEN "poor" ELSE "good",
       "Diabetes duration of", cd.diabetes_duration,
       IF cd.diabetes_duration > 10 THEN "a significant" ELSE "a moderate" >>

ExplanationData(cd, rf) ==
    [image_contribution |-> Q(60, 100),
     clinical_contribution |-> Q(40, 100),
     top_image_features |->
         <<"Microaneurysms detected", "Hard exudates present", "Retinal hemorrhages">>,
     top_clinical_features |->
         << FeatureContribution("HbA1c Level", FDiv(cd.hba1c, Q(15, 1)), Q(35, 100)),
            FeatureContribution("Diabetes Duration",
                                FDiv(FromInt(cd.diabetes_duration), Q(50, 1)), Q(25, 100)),
            FeatureContribution("Blood Glucose",
                                FDiv(cd.blood_glucose, Q(500, 1)), Q(20, 100)) >>,
     natural_language_explanation |-> natural_language_explanation(cd, rf)]

\* uuid.uuid4().hex[:12]: representatives of the 12-character hex strings
HexSuffixes == {"000000000000", "a3f9c27b51de"}

\* the exception the body raises on this input, "" when it raises none
Raised(cd) ==
    IF IntTooLarge(cd.diabetes_duration) THEN "int too large to convert to float"
    ELSE IF total(risk_factor(cd)).num = 0 THEN "float division by zero"
    ELSE ""

\* the PredictionResponse built at the return statement
PredictionResponse(cd, rs, hex, now, start_time, end_time) ==
    LET rf == risk_factor(cd)
        probs == dr_probs(rf)
        idx == predicted_idx(rf)
    IN  [status |-> 200,
         prediction_id |-> <<"demo_", hex>>,
         timestamp |-> now,
         dr_stage |-> dr_classes[idx],
         dr_stage_probability |-> probs[idx],
         dr_class_probabilities |->
             [c \in {dr_classes[i] : i \in 1..Len(dr_classes)} |->
                 probs[CHOOSE i \in 1..Len(dr_classes) : dr_classes[i] = c]],
         overall_risk_score |-> overall_risk_score(rf),
         nephropathy_risk |-> nephropathy_risk(rf),
         neuropathy_risk |-> neuropathy_risk(rf),
         cardiovascular_risk |-> cardiovascular_risk(rf),
         explanation |-> ExplanationData(cd, rf),
         recommendations |-> recommendations(cd, rf, rs),
         follow_up_months |-> follow_up(rf),
         model_version |-> "v1.0.0-demo",
         processing_time_ms |-> end_time - start_time]

\* raise HTTPException(status_code=500, detail=str(e))
HTTPException500(detail) == [status |-> 500, detail |-> detail]

\* the schema layer's rejection
ValidationError == [status |-> 422]

NoResponse == [status |-> 0]

(***************************************************************************)
(* Inputs.                                                                 *)
(***************************************************************************)
HugeDuration == MaxFloatInt + 1

Payload(age, hba1c, dur, sys, bmi, smoke, absent) ==
    [age |-> age, hba1c |-> hba1c, diabetes_duration |-> dur,
     blood_pressure_systolic |-> sys, bmi |-> bmi, smoking_status |-> smoke,
     blood_glucose |-> Q(180, 1), absent |-> absent]

\* the single-request grid
Payloads ==
    { Payload(age, Q(h, 10), d, s, Q(b, 10), sm, ab) :
        age \in {-1, 0, 120, 121},
        h \in {-5, 62, 70, 71, 95, 140},
        d \in (-1..MaxDuration) \cup {HugeDuration},
        s \in {130, 131},
        b \in {250, 251},
        sm \in {"never", "current"},
        ab \in {{}, {"hba1c"}, {"smoking_status"}} }

\* the grid of the two-request specification
PairPayloads ==
    { Payload(50, Q(h, 10), d, 131, Q(250, 10), "never", {}) :
        h \in {62, 71}, d \in {-20, 2, 6, 14, 21, HugeDuration} }

\* the grid of the concurrent specification: one payload the schema rejects, one
\* on which the body raises, and valid ones across the risk tiers
ConcPayloads ==
    { Payload(121, Q(62, 10), 2, 131, Q(250, 10), "current", {}) }
    \cup
    { Payload(50, Q(62, 10), d, 131, Q(250, 10), "current", {}) :
        d \in {-20, 21, HugeDuration} }
    \cup
    { Payload(50, Q(95, 10), 6, 120, Q(250, 10), "never", {}) }

(***************************************************************************)
(* The state machine.                                                      *)
(***************************************************************************)
Request(p) == [payload |-> p, stage |-> "received", response |-> NoResponse]

Ids == 1..Len(reqs)

\* the responses already sent
Sent == [i \in {j \in Ids : reqs[j].stage = "done"} |-> reqs[i].response]

Init == clock = 0 /\ \E p \in Payloads : reqs = <<Request(p)>>

InitPair == clock = 0 /\ \E p \in PairPayloads, q \in PairPayloads : reqs = <<Request(p), Request(q)>>

InitConc == clock = 0 /\ reqs = <<>>

\* a client posts a payload
Receive(p) ==
    /\ Len(reqs) < MaxRequests
    /\ reqs' = Append(reqs, Request(p))
    /\ UNCHANGED clock

\* the schema layer accepts the body and hands it to the handler, or answers 422
Validate(i) ==
    /\ reqs[i].stage = "received"
    /\ reqs' = [reqs EXCEPT ![i] =
                  IF Valid(reqs[i].payload)
                  THEN [@ EXCEPT !.stage = "validated"]
                  ELSE [@ EXCEPT !.stage = "done", !.response = ValidationError]]
    /\ UNCHANGED clock

\* demo_analyze returns the response: 200
Respond(i) ==
    /\ reqs[i].stage = "validated"
    /\ Raised(ClinicalData(reqs[i].payload)) = ""
    /\ \E hex \in HexSuffixes, e \in 0..1 :
          /\ clock + e <= MaxClock
          /\ clock' = clock + e
          /\ reqs' = [reqs EXCEPT ![i] =
                        [@ EXCEPT !.stage = "done",
                                  !.response =
                                      PredictionResponse(ClinicalData(reqs[i].payload),
                                                         Sent, hex, clock + e,
                                                         clock, clock + e)]]

\* the body raises and the except clause answers 500
Fail(i) ==
    /\ reqs[i].stage = "validated"
    /\ Raised(ClinicalData(reqs[i].payload)) # ""
    /\ reqs' = [reqs EXCEPT ![i] =
                  [@ EXCEPT !.stage = "done",
                            !.response =
                                HTTPException500(Raised(ClinicalData(reqs[i].payload)))]]
    /\ UNCHANGED clock

\* time passes
Tick ==
    /\ clock < MaxClock
    /\ clock' = clock + 1
    /\ UNCHANGED reqs

Next ==
    \/ \E i \in Ids : Validate(i)
    \/ \E i \in Ids : Respond(i)
    \/ \E i \in Ids : Fail(i)
    \/ Tick

NextConc ==
    \/ \E p \in ConcPayloads : Receive(p)
    \/ Next

Spec == Init /\ [][Next]_vars

SpecPair == InitPair /\ [][Next]_vars

SpecConc == InitConc /\ [][NextConc]_vars

(***************************************************************************)
(* Properties.                                                             *)
(***************************************************************************)
\* the requests answered 200
OK == {i \in Ids : reqs[i].stage = "done" /\ reqs[i].response.status = 200}

Resp(i) == reqs[i].response

CD(i) == ClinicalData(reqs[i].payload)

\* the risk factor as the response returns it
RF(i) == Resp(i).overall_risk_score.value

Labels == {dr_classes[k] : k \in 1..Len(dr_classes)}

InUnit(x) == FLE(Q(0, 1), x) /\ FLE(x, Q(1, 1))

\* C1: in every 200 response the five values of dr_class_probabilities sum to 1
\* and each lies in [0,1].
C1_ProbabilitiesFormDistribution ==
    \A i \in OK :
        LET P == Resp(i).dr_class_probabilities
        IN  /\ DOMAIN P = Labels
            /\ FSum([k \in 1..Len(dr_classes) |-> P[dr_classes[k]]]) = Q(1, 1)
            /\ \A c \in Labels : InUnit(P[c])

\* C2: in every 200 response the risk factor, returned as
\* overall_risk_score.value, satisfies 0 <= risk_factor <= 1.
C2_RiskFactorInUnitInterval == \A i \in OK : InUnit(RF(i))

\* the category the thresholds give to a value
CategoryOf(value, hi, mod) ==
    IF FGT(value, hi) THEN "High" ELSE IF FGT(value, mod) THEN "Moderate" ELSE "Low"

\* C3: in every 200 response each of the four risk scores has the value
\* min(1.0, risk_factor * multiplier) and the category its own value falls in by
\* its own thresholds.
C3_CategoryFromOwnValue ==
    \A i \in OK :
        LET r == Resp(i)
        IN  /\ r.nephropathy_risk.value = FMin(Q(1, 1), FMul(RF(i), Q(11, 10)))
            /\ r.neuropathy_risk.value = FMin(Q(1, 1), FMul(RF(i), Q(9, 10)))
            /\ r.cardiovascular_risk.value = FMin(Q(1, 1), FMul(RF(i), Q(105, 100)))
            /\ r.overall_risk_score.category =
                   CategoryOf(r.overall_risk_score.value, Q(7, 10), Q(4, 10))
            /\ r.nephropathy_risk.category =
                   CategoryOf(r.nephropathy_risk.value, Q(6, 10), Q(3, 10))
            /\ r.neuropathy_risk.category =
                   CategoryOf(r.neuropathy_risk.value, Q(7, 10), Q(4, 10))
            /\ r.cardiovascular_risk.category =
                   CategoryOf(r.cardiovascular_risk.value, Q(65, 100), Q(35, 100))

Opt(cond, m) == IF cond THEN <<m>> ELSE <<>>

\* C4: in every 200 response recommendations is the glycemic message iff
\* hba1c > 7.0, the pressure message iff systolic > 130, the weight message iff
\* bmi > 25, the smoking message iff smoking_status = "current", in that order,
\* then exactly one tier message by risk_factor as the last element; 1 to 5
\* entries, none twice.
C4_RecommendationsExact ==
    \A i \in OK :
        LET r == Resp(i).recommendations
            tier == IF FGT(RF(i), Q(7, 10)) THEN MsgUrgent
                    ELSE IF FGT(RF(i), Q(4, 10)) THEN MsgFollowUp
                    ELSE MsgContinue
        IN  /\ r = Opt(FGT(CD(i).hba1c, Q(7, 1)), MsgGlycemic)
                   \o Opt(CD(i).blood_pressure_systolic > 130, MsgPressure)
                   \o Opt(FGT(CD(i).bmi, Q(25, 1)), MsgWeight)
                   \o Opt(CD(i).smoking_status = "current", MsgSmoking)
                   \o <<tier>>
            /\ Len(r) >= 1 /\ Len(r) <= 5
            /\ \A a, b \in 1..Len(r) : r[a] = r[b] => a = b
            /\ Cardinality({a \in 1..Len(r) : r[a] \in TierMessages}) = 1
            /\ r[Len(r)] \in TierMessages

\* a response carrying all five messages
C4_Witness ==
    \E i \in OK :
        Resp(i).recommendations =
            <<MsgGlycemic, MsgPressure, MsgWeight, MsgSmoking, MsgUrgent>>

\* C5: follow_up_months is 1 if risk_factor > 0.7, else 3 if > 0.4, else 6, and
\* of two answered requests the one with the smaller or equal risk factor has
\* the longer or equal interval.
C5_FollowUpMonotone ==
    /\ \A i \in OK :
          /\ Resp(i).follow_up_months \in {1, 3, 6}
          /\ Resp(i).follow_up_months =
                 IF FGT(RF(i), Q(7, 10)) THEN 1
                 ELSE IF FGT(RF(i), Q(4, 10)) THEN 3 ELSE 6
    /\ \A i, j \in OK :
          FLE(RF(i), RF(j)) => Resp(i).follow_up_months >= Resp(j).follow_up_months

\* two answered requests in different tiers, one of them moderate
C5_Witness ==
    \E i, j \in OK :
        /\ FLT(RF(i), RF(j))
        /\ Resp(i).follow_up_months = 3
        /\ Resp(j).follow_up_months = 1

\* C6: dr_stage is the first label of dr_classes whose probability is maximal,
\* and dr_stage_probability is that label's entry of dr_class_probabilities.
C6_FirstMaxStage ==
    \A i \in OK :
        LET P == Resp(i).dr_class_probabilities
        IN  \E k \in 1..Len(dr_classes) :
                /\ Resp(i).dr_stage = dr_classes[k]
                /\ Resp(i).dr_stage_probability = P[dr_classes[k]]
                /\ \A j \in 1..Len(dr_classes) : FLE(P[dr_classes[j]], P[dr_classes[k]])
                /\ \A j \in 1..(k - 1) : FLT(P[dr_classes[j]], P[dr_classes[k]])

\* a response whose stage is the first label, with the fourth close behind
C6_Witness ==
    \E i \in OK :
        /\ Resp(i).dr_stage = "No DR"
        /\ FGT(Resp(i).dr_class_probabilities["Severe NPDR"], Q(1, 4))

\* C7: an answered request has exactly one of the outcomes 422, 200, 500 and an
\* unanswered one has none; a payload with age outside [0,120] or without a
\* required field never reaches the handler and is answered 422 only; 422 is
\* given to such payloads only; 500 carries the message of the exception the
\* body raised.
C7_Outcomes ==
    \A i \in Ids :
        LET r == reqs[i]
            bad == ~(r.payload.age >= 0 /\ r.payload.age <= 120)
                   \/ r.payload.absent \cap RequiredFields # {}
        IN  /\ r.stage = "done" <=> r.response.status \in {422, 200, 500}
            /\ r.stage # "done" => r.response = NoResponse
            /\ bad => r.stage # "validated" /\ r.response.status \in {0, 422}
            /\ r.response.status = 422 => bad
            /\ r.response.status = 500 =>
                   /\ Raised(CD(i)) # ""
                   /\ r.response = [status |-> 500, detail |-> Raised(CD(i))]
            /\ r.response.status = 200 => Raised(CD(i)) = ""

\* a payload with an age below 0 was rejected
C7_Witness ==
    \E i \in Ids :
        /\ reqs[i].payload.age < 0
        /\ reqs[i].payload.absent = {}
        /\ reqs[i].stage = "done"
        /\ reqs[i].response.status = 422

\* a response without prediction_id, timestamp and processing_time_ms
Core(r) ==
    IF r.status = 200
    THEN [f \in DOMAIN r \ {"prediction_id", "timestamp", "processing_time_ms"} |-> r[f]]
    ELSE r

InSeq(m, s) == \E a \in 1..Len(s) : s[a] = m

\* C9: follow_up_months, the overall category and the tier message agree:
\* 1, High and urgent together; 3, Moderate and follow-up together; 6, Low and
\* continue together.
C9_TiersAgree ==
    \A i \in OK :
        LET r == Resp(i)
        IN  /\ (r.follow_up_months = 1) = (r.overall_risk_score.category = "High")
            /\ (r.follow_up_months = 1) = InSeq(MsgUrgent, r.recommendations)
            /\ (r.follow_up_months = 3) = (r.overall_risk_score.category = "Moderate")
            /\ (r.follow_up_months = 3) = InSeq(MsgFollowUp, r.recommendations)
            /\ (r.follow_up_months = 6) = (r.overall_risk_score.category = "Low")
            /\ (r.follow_up_months = 6) = InSeq(MsgContinue, r.recommendations)

\* a response with the risk factor at the threshold 0.7 itself
C9_Witness ==
    \E i \in OK : RF(i) = Q(7, 10) /\ Resp(i).follow_up_months = 3

====
